---- MODULE Spec2Model ----
(***************************************************************************)
(* Navigation and transition controller of the scroll-driven narrative:   *)
(* ScrollSections (src/unnamed/part_011) and its horizontal gallery        *)
(* PortfolioHorizontal (src/src/components/PortfolioHorizontal.tsx).       *)
(*                                                                         *)
(* Step indices, section indices and card indices are 0-based as in the    *)
(* source; sequences are 1-based, so steps[i + 1] is the source's steps[i].*)
(***************************************************************************)
EXTENDS Integers, Sequences, FiniteSets, TLC

\* ------------------------------------------------------------------ bounds

\* Number of detail sections after the gallery section in the section list of
\* Spec (the source has 3 after it and 5 before it; the model keeps 1 before).
DetailRun == 1

\* Longest section list handed to the step builder in SpecSteps.
MaxSections == 3

\* The advance intents counted in a walk (SpecWalk); the other specifications
\* start with the count at WalkCap and so do not count.
WalkCap == 4

\* ------------------------------------------------------- program constants

THRESHOLD == 50

SWIPE_MIN == 50

NumProjects == 4

\* ------------------------------------------------------------------ inputs

\* window.innerHeight of the page of Spec; every section is one viewport high.
PageInnerHeight == 1000

\* window.scrollY, document.documentElement.scrollHeight and window.innerHeight
\* of the pages of SpecProgress: scrolled past either end (elastic overscroll),
\* and documents shorter than, as high as and higher than the viewport.
ScrollTops == {-100, 0, 500, 1000, 1500, 2000, 2100, 3000}

ScrollHeights == {0, 1000, 1500, 3000, 4000}

InnerHeights == {800, 1000, 1200}

\* deltaY of a wheel event: a small notch, and a large one in either direction.
Deltas == {-100, -25, 25, 100}

\* clientY of a touch point.
TouchStartYs == {100}

TouchEndYs == {49, 50, 100, 150, 151}

Keys == {"ArrowDown", "PageDown", "Space", "ArrowUp", "PageUp", "Home", "End",
         "ArrowRight", "ArrowLeft", "Other"}

VARIABLES
    sections,            \* the section list (immutable once chosen)
    steps,               \* the step list derived from it
    buildIndex,          \* sections.forEach: index of the next section to visit
    currentStepRef,      \* currentStepRef.current (and the currentStep state)
    isAnimating,         \* isAnimating.current: the transition lock
    visibleDetails,      \* set of section indices whose detail card is shown
    portfolioVisible,    \* gallery overlay shown
    activeTextSections,  \* activeTextSections.current
    scrollTweens,        \* scroll-position tweens in flight
    wheelAccum,          \* wheelAccum.current
    wheelTimer,          \* TRUE while the 200 ms reset timer is pending
    touchStartY,         \* onTouchStart's closure variable
    currentCard,         \* PortfolioHorizontal currentCard.current
    isMoving,            \* PortfolioHorizontal isMoving.current
    slideTweens,         \* gallery track tweens in flight
    slideOlder,          \* a gallery tween in flight was started before the
                         \* scroll tween in flight was
    heroTimer,           \* TRUE while gsap.delayedCall(0.6, ...) is pending
    mounted,             \* the component is mounted (listeners registered)
    domReady,            \* containerRef's .scroll-section elements can be found
    scrollY,             \* window.scrollY
    scrollHeight,        \* document.documentElement.scrollHeight
    innerHeight,         \* window.innerHeight
    progress,            \* the value last handed to onScrollProgress, as a
                         \* fraction num/den
    last,                \* a record of the last handler run: see Did
    walk                 \* the number of advance intents onWheel has derived
                         \* since the start of a walk, counted up to WalkCap

modelVars == <<sections, steps, buildIndex>>
navVars == <<currentStepRef, isAnimating, visibleDetails, portfolioVisible,
             activeTextSections, scrollTweens>>
aggVars == <<wheelAccum, wheelTimer, touchStartY>>
subVars == <<currentCard, isMoving, slideTweens>>
timeVars == <<slideOlder>>
envVars == <<heroTimer, mounted, domReady>>
progVars == <<scrollY, scrollHeight, innerHeight, progress>>
vars == <<modelVars, navVars, aggVars, subVars, envVars, timeVars, progVars, last, walk>>

\* ----------------------------------------------------------------- helpers

Abs(x) == IF x < 0 THEN -x ELSE x

Max(a, b) == IF a > b THEN a ELSE b

Min(a, b) == IF a < b THEN a ELSE b

\* ------------------------------------------------------------- step model

\* A section as far as the controller reads it: detail is absent, the empty
\* string, or content; isPortfolio is the gallery flag.
SectionShapes == [detail : {"undefined", "empty", "content"}, isPortfolio : BOOLEAN]

\* A truthiness under which the empty string counts as content.
TruthyDefined(detail) == detail # "undefined"

\* JavaScript truthiness of s.detail: undefined and '' are falsy.
Truthy(detail) == detail = "content"

\* A step builder that pushes the gallery step and the detail step independently.
PushStepsNoElse(acc, s, i) ==
    LET a1 == Append(acc, [sectionIndex |-> i, subStep |-> "title"])
        a2 == IF s.isPortfolio
              THEN Append(a1, [sectionIndex |-> i, subStep |-> "portfolio"])
              ELSE a1
    IN  IF Truthy(s.detail)
        THEN Append(a2, [sectionIndex |-> i, subStep |-> "detail"])
        ELSE a2

\* One iteration of sections.forEach((s, i) => ...).
PushSteps(acc, s, i) ==
    LET a1 == Append(acc, [sectionIndex |-> i, subStep |-> "title"])
    IN  IF s.isPortfolio
        THEN Append(a1, [sectionIndex |-> i, subStep |-> "portfolio"])
        ELSE IF Truthy(s.detail)
             THEN Append(a1, [sectionIndex |-> i, subStep |-> "detail"])
             ELSE a1

RECURSIVE BuildFrom(_, _, _)
BuildFrom(secs, i, acc) ==
    IF i >= Len(secs) THEN acc
    ELSE BuildFrom(secs, i + 1, PushSteps(acc, secs[i + 1], i))

\* The whole forEach loop.
BuildSteps(secs) == BuildFrom(secs, 0, <<>>)

HelloSection == [detail |-> "empty", isPortfolio |-> FALSE]

DetailSection == [detail |-> "content", isPortfolio |-> FALSE]

PortfolioSection == [detail |-> "undefined", isPortfolio |-> TRUE]

\* The source's section list with its two runs of detail sections shortened:
\* hello, one detail section, portfolio, DetailRun detail sections.
ProgramSections ==
    <<HelloSection, DetailSection, PortfolioSection>>
        \o [k \in 1..DetailRun |-> DetailSection]

\* steps[i]; undefined (as in JavaScript) outside the list.
StepAt(i) ==
    IF i \in 0..(Len(steps) - 1) THEN steps[i + 1]
    ELSE [sectionIndex |-> -1, subStep |-> "undefined"]

SectionIndices == 0..(Len(sections) - 1)

\* --------------------------------------------------------------- the record

\* What the last handler run did:
\*   op      which handler ("callback" for a timer or a tween completion,
\*           "update" for a tween tick, "scroll" for the scroll listener,
\*           "dropped" for onWheel, onTouchEnd or onKeyDown returning at its
\*           lock test);
\*   intent  the intent it derived: "advance", "retreat", "jump" or "none";
\*   sub     what the gallery's slideTo answered: "true", "busy" (true, from
\*           its isMoving guard), "false", or "none" when it was not called;
\*   goTo    how the goToStep it called left: "same", "locked", "accepted",
\*           or "none" when it was not called.
\* A handler run that changes nothing for any other reason leaves no record.
Did(op, intent, sub, goTo) == [op |-> op, intent |-> intent, sub |-> sub, goTo |-> goTo]

Dropped == Did("dropped", "none", "none", "none")

\* ------------------------------------------------------ progress reporter

\* A JavaScript number as an exact fraction.
Frac(n, d) == [num |-> n, den |-> d]

\* The value syncProgress hands to onScrollProgress.
ProgressOf(scrollTop, documentHeight, viewportHeight) ==
    LET docHeight == documentHeight - viewportHeight
    IN  IF docHeight > 0 THEN Frac(scrollTop, docHeight) ELSE Frac(0, 1)

\* targetEl.offsetTop of a section's anchor: sections are stacked, each one
\* viewport high.
OffsetTop(sectionIndex) == sectionIndex * innerHeight

\* ------------------------------------------------------ text animations

\* getSectionElements(sectionIndex) finds the section and it has characters.
ElsPresent(sectionIndex) == domReady /\ sectionIndex \in SectionIndices

AnimateTextIn(active, sectionIndex) ==
    IF ElsPresent(sectionIndex) THEN active \cup {sectionIndex} ELSE active

AnimateTextOut(active, sectionIndex) ==
    IF ElsPresent(sectionIndex) THEN active \ {sectionIndex} ELSE active

\* A section change that never takes the departing section's text out.
AnimateSectionChangeNoOut(active, fromStep, toStep) ==
    LET to == StepAt(toStep)
    IN  IF to.subStep = "title" /\ to.sectionIndex \notin active
        THEN AnimateTextIn(active, to.sectionIndex)
        ELSE active

\* A section change that takes the departing text out without comparing the
\* two steps' sections.
AnimateSectionChangeAlwaysOut(active, fromStep, toStep) ==
    LET from == StepAt(fromStep)
        to == StepAt(toStep)
        a1 == IF from.sectionIndex \in active
              THEN AnimateTextOut(active, from.sectionIndex)
              ELSE active
    IN  IF to.subStep = "title" /\ to.sectionIndex \notin a1
        THEN AnimateTextIn(a1, to.sectionIndex)
        ELSE a1

\* The set of text-active sections after animateSectionChange(fromStep, toStep).
AnimateSectionChange(active, fromStep, toStep) ==
    LET from == StepAt(fromStep)
        to == StepAt(toStep)
        a1 == IF from.sectionIndex # to.sectionIndex /\ from.sectionIndex \in active
              THEN AnimateTextOut(active, from.sectionIndex)
              ELSE active
    IN  IF to.subStep = "title" /\ to.sectionIndex \notin a1
        THEN AnimateTextIn(a1, to.sectionIndex)
        ELSE a1

\* ------------------------------------------------------------- goToStep

ClampNoLower(stepIndex) == Min(stepIndex, Len(steps) - 1)

Clamp(stepIndex) == Max(0, Min(stepIndex, Len(steps) - 1))

SameStepOnly(clamped) == clamped = currentStepRef

LockOnly(clamped) == isAnimating

\* The two early returns of goToStep.
GoToRejected(clamped) == clamped = currentStepRef \/ isAnimating

\* The exit goToStep(stepIndex) takes: its first return ("same"), its second
\* ("locked"), or neither ("accepted").
GoToOutcome(stepIndex) ==
    IF Clamp(stepIndex) = currentStepRef THEN "same"
    ELSE IF isAnimating THEN "locked"
    ELSE "accepted"

\* The section's anchor element exists.
AnchorPresent(sectionIndex) == domReady /\ sectionIndex \in SectionIndices

\* A visibility update that never removes a section.
VisibleDetailsNoDelete(step) ==
    IF step.subStep = "detail"
    THEN visibleDetails \cup {step.sectionIndex}
    ELSE visibleDetails

\* setVisibleDetails in goToStep's visibility update, for the step entered.
VisibleDetailsAfter(step) ==
    IF step.subStep = "detail"
    THEN visibleDetails \cup {step.sectionIndex}
    ELSE IF step.subStep = "title"
         THEN visibleDetails \ {step.sectionIndex}
         ELSE visibleDetails

\* A visibility update that never shows the gallery overlay.
PortfolioVisibleNeverSet(step) ==
    IF step.subStep = "title"
    THEN IF sections[step.sectionIndex + 1].isPortfolio
         THEN FALSE ELSE portfolioVisible
    ELSE portfolioVisible

\* setPortfolioVisible in goToStep's visibility update, for the step entered.
PortfolioVisibleAfter(step) ==
    IF step.subStep = "title"
    THEN IF sections[step.sectionIndex + 1].isPortfolio
         THEN FALSE ELSE portfolioVisible
    ELSE IF step.subStep = "portfolio" THEN TRUE
         ELSE portfolioVisible

GoToStep(stepIndex) ==
    LET clamped == Clamp(stepIndex)
        step == StepAt(clamped)
    IN  IF GoToRejected(clamped)
        THEN UNCHANGED <<navVars, timeVars>>
        ELSE /\ currentStepRef' = clamped
             /\ isAnimating' = TRUE
             /\ slideOlder' = (slideTweens > 0 /\ step.subStep # "undefined"
                                  /\ AnchorPresent(step.sectionIndex))
             /\ IF step.subStep = "undefined"
                THEN \* step.subStep throws: nothing after the lock is set runs
                     UNCHANGED <<visibleDetails, portfolioVisible,
                                 activeTextSections, scrollTweens>>
                ELSE /\ visibleDetails' = VisibleDetailsAfter(step)
                     /\ portfolioVisible' = PortfolioVisibleAfter(step)
                     /\ activeTextSections' =
                            AnimateSectionChange(activeTextSections, currentStepRef, clamped)
                     /\ scrollTweens' =
                            IF AnchorPresent(step.sectionIndex)
                            THEN scrollTweens + 1 ELSE scrollTweens

\* ------------------------------------------------------ the initial state

InitNav ==
    /\ currentStepRef = 0
    /\ isAnimating = FALSE
    /\ visibleDetails = {}
    /\ portfolioVisible = FALSE
    /\ activeTextSections = {}
    /\ scrollTweens = 0
    /\ wheelAccum = 0
    /\ wheelTimer = FALSE
    /\ touchStartY = 0
    /\ currentCard = 0
    /\ isMoving = FALSE
    /\ slideTweens = 0
    /\ slideOlder = FALSE
    /\ heroTimer = TRUE
    /\ mounted = TRUE
    /\ domReady = TRUE
    /\ last = Did("init", "none", "none", "none")
    /\ walk = WalkCap

\* The page at mount, not scrolled, after the scroll-sync effect's
\* syncProgress() call.
InitPage ==
    /\ scrollY = 0
    /\ scrollHeight = Len(sections) * PageInnerHeight
    /\ innerHeight = PageInnerHeight
    /\ progress = ProgressOf(scrollY, scrollHeight, innerHeight)

Init ==
    /\ sections = ProgramSections
    /\ steps = BuildSteps(sections)
    /\ buildIndex = Len(sections)
    /\ InitNav
    /\ InitPage

\* ---------------------------------------------------------- completions

\* A scroll tween completion that publishes progress and leaves the lock set.
ScrollCompleteKeepsLock ==
    /\ scrollTweens > 0
    /\ ~heroTimer /\ ~wheelTimer /\ ~slideOlder
    /\ scrollTweens' = scrollTweens - 1
    /\ scrollY' = OffsetTop(StepAt(currentStepRef).sectionIndex)
    /\ progress' = ProgressOf(scrollY', scrollHeight, innerHeight)
    /\ last' = Did("callback", "none", "none", "none")
    /\ UNCHANGED <<currentStepRef, isAnimating, visibleDetails, portfolioVisible,
                   activeTextSections>>
    /\ UNCHANGED <<scrollHeight, innerHeight>>
    /\ UNCHANGED <<modelVars, walk, aggVars, subVars, envVars, timeVars>>

\* onComplete of the scroll tween started by goToStep: the window is at the
\* anchor of the step goToStep scrolled to (currentStepRef cannot change while
\* the tween runs), the lock is cleared and syncProgress() publishes.  The
\* tween lasts 1.5 s:
\* the 0.6 s delayed call, a 200 ms wheel timer (never restarted under the
\* lock) and a 0.9 s gallery tween started before it have all run out by then.
ScrollComplete ==
    /\ scrollTweens > 0
    /\ ~heroTimer /\ ~wheelTimer /\ ~slideOlder
    /\ scrollTweens' = scrollTweens - 1
    /\ isAnimating' = FALSE
    /\ scrollY' = OffsetTop(StepAt(currentStepRef).sectionIndex)
    /\ progress' = ProgressOf(scrollY', scrollHeight, innerHeight)
    /\ last' = Did("callback", "none", "none", "none")
    /\ UNCHANGED <<currentStepRef, visibleDetails, portfolioVisible, activeTextSections>>
    /\ UNCHANGED <<scrollHeight, innerHeight>>
    /\ UNCHANGED <<modelVars, walk, aggVars, subVars, envVars, timeVars>>

\* ------------------------------------------------------- sub-navigator

\* trackRef.current is set for as long as the gallery is mounted.
TrackPresent == mounted

\* portfolioNavRef.current is set by the gallery's effect and cleared on unmount.
NavRefSet == mounted

\* A slideTo that reports "handled" whenever it is not moving.
SlideReturnAlways(index) == TRUE

\* A slideTo that reports "not handled" while a slide is in flight.
SlideReturnBusyFalse(index) ==
    IF isMoving THEN FALSE
    ELSE IF index < 0 \/ index >= NumProjects THEN FALSE
    ELSE TrackPresent

\* The value slideTo(index) returns.
SlideReturn(index) ==
    IF isMoving THEN TRUE
    ELSE IF index < 0 \/ index >= NumProjects THEN FALSE
    ELSE TrackPresent

\* A slideTo without its isMoving guard.
SlideToNoGuard(index) ==
    IF index < 0 \/ index >= NumProjects
    THEN UNCHANGED subVars
    ELSE /\ isMoving' = TRUE
         /\ currentCard' = index
         /\ slideTweens' = IF TrackPresent THEN slideTweens + 1 ELSE slideTweens

\* What slideTo(index) does to the gallery.
SlideTo(index) ==
    IF isMoving \/ index < 0 \/ index >= NumProjects
    THEN UNCHANGED subVars
    ELSE /\ isMoving' = TRUE
         /\ currentCard' = index
         /\ slideTweens' = IF TrackPresent THEN slideTweens + 1 ELSE slideTweens

\* The record of slideTo(index)'s answer.
SubAnswer(index) ==
    IF SlideReturn(index) THEN (IF isMoving THEN "busy" ELSE "true") ELSE "false"

\* A gallery tween completion that also clears the controller's lock.
SlideCompleteUnlocks ==
    /\ slideTweens > 0
    /\ ~heroTimer
    /\ slideTweens' = slideTweens - 1
    /\ isMoving' = FALSE
    /\ isAnimating' = FALSE
    /\ slideOlder' = FALSE
    /\ last' = Did("callback", "none", "none", "none")
    /\ UNCHANGED <<currentStepRef, visibleDetails, portfolioVisible, activeTextSections,
                   scrollTweens>>
    /\ UNCHANGED <<currentCard, modelVars, walk, progVars, aggVars, envVars>>

\* onComplete of the gallery track tween.  The tween lasts 0.9 s: the 0.6 s
\* delayed call set at mount has fired by then.
SlideComplete ==
    /\ slideTweens > 0
    /\ ~heroTimer
    /\ slideTweens' = slideTweens - 1
    /\ isMoving' = FALSE
    /\ slideOlder' = FALSE
    /\ last' = Did("callback", "none", "none", "none")
    /\ UNCHANGED <<currentCard, modelVars, walk, progVars, navVars, aggVars, envVars>>

\* ---------------------------------------------------------------- wheel

WheelNeverSuppressed == FALSE

\* A lock test made in onWheel's main branch only, not in its gallery branch.
WheelSuppressedOffGallery ==
    isAnimating /\ StepAt(currentStepRef).subStep # "portfolio"

\* The lock test of onWheel, made in both of its branches before anything else.
WheelSuppressed == isAnimating

ThresholdExceeded(acc) == Abs(acc) > THRESHOLD

ThresholdReached(acc) == Abs(acc) >= THRESHOLD

IntentOf(direction) == IF direction > 0 THEN "advance" ELSE "retreat"

OnWheel(deltaY) ==
    /\ mounted
    /\ UNCHANGED <<modelVars, progVars, envVars, touchStartY>>
    /\ walk' = IF /\ ~WheelSuppressed
                  /\ ThresholdReached(wheelAccum + deltaY)
                  /\ wheelAccum + deltaY > 0
                  /\ walk < WalkCap
               THEN walk + 1 ELSE walk
    /\ IF WheelSuppressed
       THEN /\ UNCHANGED <<navVars, subVars, timeVars, wheelAccum, wheelTimer>>
            /\ last' = Dropped
       ELSE LET acc == wheelAccum + deltaY
                direction == IF acc > 0 THEN 1 ELSE -1
                target == currentStepRef + direction
            IN  /\ wheelTimer' = TRUE
                /\ IF ~ThresholdReached(acc)
                   THEN /\ wheelAccum' = acc
                        /\ UNCHANGED <<navVars, subVars, timeVars>>
                        /\ last' = Did("wheel", "none", "none", "none")
                   ELSE /\ wheelAccum' = 0
                        /\ IF StepAt(currentStepRef).subStep = "portfolio" /\ NavRefSet
                           THEN LET handled == SlideReturn(currentCard + direction)
                                    answer == SubAnswer(currentCard + direction)
                                IN  /\ SlideTo(currentCard + direction)
                                    /\ IF handled
                                       THEN /\ UNCHANGED <<navVars, timeVars>>
                                            /\ last' = Did("wheel", IntentOf(direction),
                                                           answer, "none")
                                       ELSE /\ GoToStep(target)
                                            /\ last' = Did("wheel", IntentOf(direction),
                                                           answer, GoToOutcome(target))
                           ELSE /\ GoToStep(target)
                                /\ UNCHANGED subVars
                                /\ last' = Did("wheel", IntentOf(direction), "none",
                                               GoToOutcome(target))

\* The 200 ms timer set by onWheel fires.
WheelTimerFire ==
    /\ wheelTimer
    /\ wheelAccum' = 0
    /\ wheelTimer' = FALSE
    /\ last' = Did("callback", "none", "none", "none")
    /\ UNCHANGED <<touchStartY, modelVars, walk, progVars, navVars, subVars, envVars, timeVars>>

\* ---------------------------------------------------------------- touch

OnTouchStart(y) ==
    /\ mounted
    /\ touchStartY' = y
    /\ last' = Did("touchStart", "none", "none", "none")
    /\ UNCHANGED <<wheelAccum, wheelTimer, modelVars, walk, progVars, navVars, subVars,
                   envVars, timeVars>>

\* A swipe test that counts a swipe of exactly SWIPE_MIN.
IsSwipeInclusive(delta) == Abs(delta) >= SWIPE_MIN

\* Math.abs(delta) > 50 in onTouchEnd.
IsSwipe(delta) == Abs(delta) > SWIPE_MIN

OnTouchEnd(y) ==
    /\ mounted
    /\ UNCHANGED <<modelVars, walk, progVars, aggVars, subVars, envVars>>
    /\ IF isAnimating
       THEN /\ UNCHANGED <<navVars, timeVars>>
            /\ last' = Dropped
       ELSE LET delta == touchStartY - y
                direction == IF delta > 0 THEN 1 ELSE -1
                target == currentStepRef + direction
            IN  IF IsSwipe(delta)
                THEN /\ GoToStep(target)
                     /\ last' = Did("touchEnd", IntentOf(direction), "none",
                                    GoToOutcome(target))
                ELSE UNCHANGED <<navVars, timeVars, last>>

\* ------------------------------------------------------------- keyboard

\* The intent onKeyDown derives from a key ("none": a key it does not handle).
KeyIntent(key) ==
    IF key \in {"ArrowDown", "PageDown", "Space"} THEN "advance"
    ELSE IF key \in {"ArrowUp", "PageUp"} THEN "retreat"
    ELSE IF key \in {"Home", "End"} THEN "jump"
    ELSE "none"

\* The step onKeyDown asks goToStep for.
KeyTarget(key) ==
    IF key \in {"ArrowDown", "PageDown", "Space"} THEN currentStepRef + 1
    ELSE IF key \in {"ArrowUp", "PageUp"} THEN currentStepRef - 1
    ELSE IF key = "Home" THEN 0
    ELSE Len(steps) - 1

\* The controller's keydown listener.
OnKeyDown(key) ==
    /\ mounted
    /\ UNCHANGED <<modelVars, walk, progVars, aggVars, subVars, envVars>>
    /\ IF isAnimating
       THEN /\ UNCHANGED <<navVars, timeVars>>
            /\ last' = Dropped
       ELSE IF KeyIntent(key) = "none"
            THEN UNCHANGED <<navVars, timeVars, last>>
            ELSE /\ GoToStep(KeyTarget(key))
                 /\ last' = Did("key", KeyIntent(key), "none",
                                GoToOutcome(KeyTarget(key)))

\* The gallery's keydown listener; onComplete is onPortfolioDone and onGoBack
\* is onPortfolioBack.
HandleKey(key) ==
    /\ mounted
    /\ UNCHANGED <<modelVars, walk, progVars, aggVars, envVars>>
    /\ IF isMoving \/ key \notin {"ArrowRight", "ArrowLeft"}
       THEN UNCHANGED <<navVars, subVars, timeVars, last>>
       ELSE LET direction == IF key = "ArrowRight" THEN 1 ELSE -1
                handled == SlideReturn(currentCard + direction)
                answer == SubAnswer(currentCard + direction)
                target == currentStepRef + direction
            IN  /\ SlideTo(currentCard + direction)
                /\ IF handled
                   THEN /\ UNCHANGED <<navVars, timeVars>>
                        /\ last' = Did("phKey", IntentOf(direction), answer, "none")
                   ELSE /\ GoToStep(target)
                        /\ last' = Did("phKey", IntentOf(direction), answer,
                                       GoToOutcome(target))

\* A keydown event on window: both listeners receive it, and they act on
\* disjoint sets of keys.
KeyDown(key) ==
    IF key \in {"ArrowRight", "ArrowLeft"} THEN HandleKey(key) ELSE OnKeyDown(key)

\* ------------------------------------------------------- navigation dots

\* steps.findIndex(st => st.sectionIndex === i && st.subStep === 'title')
TitleStepOf(i) ==
    LET hits == {k \in 0..(Len(steps) - 1) :
                    StepAt(k).sectionIndex = i /\ StepAt(k).subStep = "title"}
    IN  IF hits = {} THEN -1
        ELSE CHOOSE k \in hits : \A j \in hits : k <= j

\* onClick of a side navigation dot.
NavDotClick(i) ==
    /\ mounted
    /\ UNCHANGED <<modelVars, walk, progVars, aggVars, subVars, envVars>>
    /\ IF TitleStepOf(i) >= 0
       THEN /\ GoToStep(TitleStepOf(i))
            /\ last' = Did("navDot", "jump", "none", GoToOutcome(TitleStepOf(i)))
       ELSE /\ UNCHANGED <<navVars, timeVars>>
            /\ last' = Did("navDot", "none", "none", "none")

\* onClick of a gallery progress dot (shown with the gallery overlay).
PortfolioDotClick(i) ==
    /\ mounted
    /\ portfolioVisible
    /\ SlideTo(i)
    /\ last' = Did("phDot", "none", SubAnswer(i), "none")
    /\ UNCHANGED <<modelVars, walk, progVars, navVars, aggVars, envVars, timeVars>>

\* ------------------------------------------------- entrance and teardown

\* gsap.delayedCall(0.6, () => animateTextIn(0, true)) fires.
HeroTimerFire ==
    /\ heroTimer
    /\ heroTimer' = FALSE
    /\ activeTextSections' = AnimateTextIn(activeTextSections, 0)
    /\ last' = Did("callback", "none", "none", "none")
    /\ UNCHANGED <<currentStepRef, isAnimating, visibleDetails, portfolioVisible,
                   scrollTweens, mounted, domReady>>
    /\ UNCHANGED <<modelVars, walk, progVars, aggVars, subVars, timeVars>>

\* The effects' cleanups on unmount: the delayed call is killed, the wheel
\* timer is cleared and the listeners are removed.  The scroll tween and the
\* gallery tween are not killed.
Teardown ==
    /\ mounted
    /\ mounted' = FALSE
    /\ heroTimer' = FALSE
    /\ wheelTimer' = FALSE
    /\ last' = Did("teardown", "none", "none", "none")
    /\ UNCHANGED <<wheelAccum, touchStartY, domReady>>
    /\ UNCHANGED <<modelVars, walk, progVars, navVars, subVars, timeVars>>

\* ------------------------------------------------------- specifications

Next ==
    \/ \E deltaY \in Deltas : OnWheel(deltaY)
    \/ WheelTimerFire
    \/ \E y \in TouchStartYs : OnTouchStart(y)
    \/ \E y \in TouchEndYs : OnTouchEnd(y)
    \/ \E key \in Keys : KeyDown(key)
    \/ \E i \in SectionIndices : NavDotClick(i)
    \/ \E i \in 0..(NumProjects - 1) : PortfolioDotClick(i)
    \/ ScrollComplete
    \/ SlideComplete
    \/ HeroTimerFire
    \/ Teardown

Spec == Init /\ [][Next]_vars

\* ------------------------------------------- the page's lifetime, with time

\* The controller for as long as the page lives: App renders ScrollSections
\* unconditionally, so it is never torn down before the page is.  The page is
\* driven by wheel, keys and dots; a touch swipe reaches goToStep as a key
\* does and sets no timer, and is left out.
NextLive ==
    \/ \E deltaY \in Deltas : OnWheel(deltaY)
    \/ WheelTimerFire
    \/ \E key \in Keys : KeyDown(key)
    \/ \E i \in SectionIndices : NavDotClick(i)
    \/ \E i \in 0..(NumProjects - 1) : PortfolioDotClick(i)
    \/ ScrollComplete
    \/ SlideComplete
    \/ HeroTimerFire

\* Time passes: a timer that is set fires and a tween that was started
\* completes (gsap's ticker and the browser's timers keep running).
Fairness ==
    /\ WF_vars(ScrollComplete)
    /\ WF_vars(SlideComplete)
    /\ WF_vars(WheelTimerFire)
    /\ WF_vars(HeroTimerFire)

SpecLive == Init /\ [][NextLive]_vars /\ Fairness

\* ------------------------------------------- a DOM that can lose its anchors

\* containerRef.current, or the .scroll-section elements under it, go missing.
AnchorsLost ==
    /\ mounted
    /\ domReady
    /\ domReady' = FALSE
    /\ last' = Did("callback", "none", "none", "none")
    /\ UNCHANGED <<heroTimer, mounted>>
    /\ UNCHANGED <<modelVars, walk, progVars, navVars, aggVars, subVars, timeVars>>

\* The anchors are back.
AnchorsFound ==
    /\ mounted
    /\ ~domReady
    /\ domReady' = TRUE
    /\ last' = Did("callback", "none", "none", "none")
    /\ UNCHANGED <<heroTimer, mounted>>
    /\ UNCHANGED <<modelVars, walk, progVars, navVars, aggVars, subVars, timeVars>>

NextAnchors ==
    \/ Next
    \/ AnchorsLost
    \/ AnchorsFound

SpecAnchors == Init /\ [][NextAnchors]_vars

\* ------------------------------------------------- a walk out of the gallery

\* The index of the gallery step and of its section.
GalleryStep == CHOOSE k \in 0..(Len(steps) - 1) : StepAt(k).subStep = "portfolio"

GallerySection == StepAt(GalleryStep).sectionIndex

\* The controller at rest on the gallery step with the gallery on its third
\* card, as left by wheel advances from step 0 (or by dot jumps: the detail
\* card of section 1 may never have been shown, the hero text may still be in).
InitWalk ==
    /\ sections = ProgramSections
    /\ steps = BuildSteps(sections)
    /\ buildIndex = Len(sections)
    /\ currentStepRef = GalleryStep
    /\ isAnimating = FALSE
    /\ visibleDetails \in SUBSET {1}
    /\ portfolioVisible = TRUE
    /\ activeTextSections \in {{GallerySection}, {0, GallerySection}}
    /\ scrollTweens = 0
    /\ wheelAccum = 0
    /\ wheelTimer = FALSE
    /\ touchStartY \in {0} \cup TouchStartYs
    /\ currentCard = 2
    /\ isMoving = FALSE
    /\ slideTweens = 0
    /\ slideOlder = FALSE
    /\ heroTimer = FALSE
    /\ mounted = TRUE
    /\ domReady = TRUE
    /\ innerHeight = PageInnerHeight
    /\ scrollHeight = Len(sections) * PageInnerHeight
    /\ scrollY = OffsetTop(GallerySection)
    /\ progress = ProgressOf(scrollY, scrollHeight, innerHeight)
    /\ last = Did("callback", "none", "none", "none")
    /\ walk = 0

\* Downward wheel events only, and none that would derive an intent while a
\* transition or a slide is in flight.
WalkWheel(deltaY) ==
    /\ deltaY > 0
    /\ ThresholdReached(wheelAccum + deltaY) => (~isAnimating /\ ~isMoving)
    /\ OnWheel(deltaY)

NextWalk ==
    \/ \E deltaY \in Deltas : WalkWheel(deltaY)
    \/ WheelTimerFire
    \/ ScrollComplete
    \/ SlideComplete

SpecWalk == InitWalk /\ [][NextWalk]_vars

\* --------------------------------------------- the progress reporter alone

InitProgress ==
    /\ sections = ProgramSections
    /\ steps = BuildSteps(sections)
    /\ buildIndex = Len(sections)
    /\ InitNav
    /\ scrollY = 0
    /\ scrollHeight \in ScrollHeights
    /\ innerHeight \in InnerHeights
    /\ progress = ProgressOf(scrollY, scrollHeight, innerHeight)

\* A scroll listener that publishes only while no transition is in flight.
OnScrollGated(y) ==
    /\ mounted
    /\ scrollY' = y
    /\ progress' = IF isAnimating THEN progress
                   ELSE ProgressOf(scrollY', scrollHeight, innerHeight)
    /\ last' = Did("scroll", "none", "none", "none")
    /\ UNCHANGED <<scrollHeight, innerHeight>>
    /\ UNCHANGED <<modelVars, walk, navVars, aggVars, subVars, envVars, timeVars>>

\* A scroll event on window, the page having been scrolled to y: the listener
\* is syncProgress.
OnScroll(y) ==
    /\ mounted
    /\ scrollY' = y
    /\ progress' = ProgressOf(scrollY', scrollHeight, innerHeight)
    /\ last' = Did("scroll", "none", "none", "none")
    /\ UNCHANGED <<scrollHeight, innerHeight>>
    /\ UNCHANGED <<modelVars, walk, navVars, aggVars, subVars, envVars, timeVars>>

NextProgress == \E y \in ScrollTops : OnScroll(y)

SpecProgress == InitProgress /\ [][NextProgress]_vars

\* ------------------------------------- scrolling while transitions run

\* Positions of the page of Spec, between its anchors and at them.
PagePositions == {0, 500, 1000, 2000, 2500, 3000}

\* The anchor the scroll tween in flight is moving the window to.
TweenTarget == OffsetTop(StepAt(currentStepRef).sectionIndex)

\* One tick of the scroll tween started by goToStep: the window is moved to
\* a position y on the way to the target and onUpdate (syncProgress) runs.
ScrollUpdate(y) ==
    /\ scrollTweens > 0
    /\ y # scrollY
    /\ y # TweenTarget
    /\ Min(scrollY, TweenTarget) <= y
    /\ y <= Max(scrollY, TweenTarget)
    /\ scrollY' = y
    /\ progress' = ProgressOf(scrollY', scrollHeight, innerHeight)
    /\ last' = Did("update", "none", "none", "none")
    /\ UNCHANGED <<scrollHeight, innerHeight>>
    /\ UNCHANGED <<modelVars, walk, navVars, aggVars, subVars, envVars, timeVars>>

\* The page driven by keys and navigation dots, with the window also
\* scrolled natively (scrollbar, touch pad inertia) at any time.
NextScroll ==
    \/ \E key \in {"ArrowDown", "ArrowUp", "Home", "End"} : OnKeyDown(key)
    \/ \E i \in SectionIndices : NavDotClick(i)
    \/ \E y \in PagePositions : OnScroll(y)
    \/ \E y \in PagePositions : ScrollUpdate(y)
    \/ ScrollComplete
    \/ HeroTimerFire

SpecScroll == Init /\ [][NextScroll]_vars

\* ------------------------------------------------ the step builder alone

\* Every section list of at most MaxSections sections.
SectionLists == UNION {[1..n -> SectionShapes] : n \in 0..MaxSections}

InitSteps ==
    /\ sections \in SectionLists
    /\ steps = <<>>
    /\ buildIndex = 0
    /\ InitNav
    /\ InitPage

\* One iteration of the module-level sections.forEach.
ForEachSection ==
    /\ buildIndex < Len(sections)
    /\ steps' = PushSteps(steps, sections[buildIndex + 1], buildIndex)
    /\ buildIndex' = buildIndex + 1
    /\ UNCHANGED <<sections, walk, progVars, navVars, aggVars, subVars, envVars, timeVars, last>>

NextSteps == ForEachSection

SpecSteps == InitSteps /\ [][NextSteps]_vars

\* ------------------------------------------------------------ claims

\* The handlers that can call goToStep.
InputOps == {"wheel", "touchEnd", "key", "navDot", "phKey"}

\* The current step is the gallery step.
OnGallery == StepAt(currentStepRef).subStep = "portfolio"

\* C1: while the scroll command of an accepted goToStep is still in flight,
\* a further goToStep call, from whichever entry point and for whichever
\* target, is rejected: it changes neither currentStepRef, nor the lock, nor
\* the visibility flags, nor the text-active set, and starts no scroll command.
C1_MutualExclusion ==
    [][(scrollTweens > 0 /\ last'.goTo # "none")
          => (last'.goTo \in {"same", "locked"} /\ UNCHANGED navVars)]_vars

\* A navigation dot for another section was clicked while a scroll command
\* was in flight, and goToStep returned at its lock test.
C1_Witness ==
    last = Did("navDot", "jump", "none", "locked") /\ scrollTweens = 1 /\ isAnimating

\* C2: currentStepRef changes only in a step taken by an input handler's
\* goToStep call from a state where isAnimating was clear.
C2_NoBypass ==
    [][currentStepRef' # currentStepRef
          => (~isAnimating /\ last'.goTo = "accepted" /\ last'.op \in InputOps)]_vars

\* The gallery's onComplete/onGoBack callback moved the controller.
C2_Witness ==
    last.op = "phKey" /\ last.sub = "false" /\ last.goTo = "accepted" /\ isAnimating

\* C3: a goToStep call whose clamped target is the current step changes
\* nothing: currentStepRef, the lock, visibleDetails, portfolioVisible, the
\* text-active set and the scroll commands in flight all stay as they were,
\* with the lock held or clear.
C3_Idempotent ==
    [][last'.goTo = "same" => UNCHANGED navVars]_vars

\* The navigation dot of the current section was clicked on its title step
\* with the lock clear.
C3_Witness ==
    /\ last = Did("navDot", "jump", "none", "same")
    /\ ~isAnimating
    /\ currentStepRef > 0

\* C4: currentStepRef is always an index of steps, and a goToStep below 0
\* (retreat on step 0) or above the last step (advance on the last step) is
\* the goToStep of that end of the range: here, of the current step.
C4_Range ==
    /\ [](currentStepRef \in 0..(Len(steps) - 1))
    /\ [][(/\ last'.goTo # "none"
           /\ \/ last'.intent = "retreat" /\ currentStepRef = 0
              \/ last'.intent = "advance" /\ currentStepRef = Len(steps) - 1)
             => (last'.goTo = "same" /\ UNCHANGED navVars)]_vars

\* A retreat was asked for on step 0.
C4_Witness ==
    last.intent = "retreat" /\ last.goTo = "same" /\ currentStepRef = 0

\* C5: a wheel event received with the lock clear adds its deltaY to the
\* running sum; below THRESHOLD in absolute value it derives no intent and
\* moves nothing; at THRESHOLD or above it derives exactly one intent, by the
\* sign of the sum, zeroes the accumulator, and moves the controller by at
\* most one step however large the delta.
C5_WheelThreshold ==
    [][\A d \in Deltas :
          (OnWheel(d) /\ ~isAnimating) =>
              LET sum == wheelAccum + d
              IN  IF Abs(sum) < THRESHOLD
                  THEN /\ last' = Did("wheel", "none", "none", "none")
                       /\ wheelAccum' = sum
                       /\ UNCHANGED <<navVars, subVars, timeVars>>
                  ELSE /\ last'.op = "wheel"
                       /\ last'.intent = (IF sum > 0 THEN "advance" ELSE "retreat")
                       /\ wheelAccum' = 0
                       /\ Abs(currentStepRef' - currentStepRef) <= 1]_vars

\* A wheel event brought the sum to the threshold and the controller advanced.
C5_Witness ==
    /\ last = Did("wheel", "advance", "none", "accepted")
    /\ wheelAccum = 0
    /\ wheelTimer
    /\ currentStepRef = 1

C7_Bubbling ==
    [][(OnGallery /\ ~isAnimating /\ ~isMoving) =>
          /\ (last'.intent = "advance" /\ currentCard = NumProjects - 1)
                => (currentStepRef' = currentStepRef + 1 /\ isAnimating')
          /\ (last'.intent = "retreat" /\ currentCard = 0)
                => (currentStepRef' = currentStepRef - 1 /\ isAnimating')]_vars

\* A wheel advance was offered to the gallery on its last card, the gallery
\* answered false, and the controller moved on.
C7_Witness ==
    /\ last = Did("wheel", "advance", "false", "accepted")
    /\ currentCard = NumProjects - 1
    /\ StepAt(currentStepRef).subStep = "title"

\* C8: on the gallery step every advance or retreat intent is offered to the
\* gallery first, and the controller moves for it only if the gallery
\* answered false.
C8_DelegationFirst ==
    [][(OnGallery /\ last'.intent \in {"advance", "retreat"})
          => (/\ last'.sub # "none"
              /\ currentStepRef' # currentStepRef => last'.sub = "false")]_vars

\* The direction of the next()/prev() call recorded in a handler's record.
DirOf(rec) == IF rec.intent = "advance" THEN 1 ELSE -1

\* C9 as claimed: next()/prev() returns true exactly when there was a
\* further card in that direction and the gallery moved to it, and false
\* exactly when the gallery is on its last/first card, which it then keeps.
C9_SubNavContract ==
    [][(last'.op \in {"wheel", "phKey"} /\ last'.sub # "none") =>
          LET further == (currentCard + DirOf(last')) \in 0..(NumProjects - 1)
              moved == /\ currentCard' = currentCard + DirOf(last')
                       /\ slideTweens' = slideTweens + 1
          IN  /\ (last'.sub \in {"true", "busy"}) <=> (further /\ moved)
              /\ (last'.sub = "false") <=> ~further
              /\ (last'.sub = "false") => currentCard' = currentCard]_vars

\* C9 amended: next()/prev() returns false exactly when no slide is in flight
\* and the gallery is on its last/first card, which it then keeps; otherwise
\* it returns true: with no slide in flight it moved by one card and started
\* a slide, with a slide in flight it changed nothing.
C9_SubNavContractAmended ==
    [][(last'.op \in {"wheel", "phKey"} /\ last'.sub # "none") =>
          LET further == (currentCard + DirOf(last')) \in 0..(NumProjects - 1)
          IN  /\ (last'.sub = "false") <=> (~isMoving /\ ~further)
              /\ (last'.sub = "false") => UNCHANGED subVars
              /\ (last'.sub = "busy") <=> isMoving
              /\ (last'.sub = "busy") => UNCHANGED subVars
              /\ (last'.sub = "true") =>
                    /\ currentCard' = currentCard + DirOf(last')
                    /\ isMoving'
                    /\ slideTweens' = slideTweens + 1]_vars

\* next()/prev() was called from onWheel while a slide was in flight.
C9_Witness ==
    last.op = "wheel" /\ last.sub = "busy" /\ isMoving /\ slideTweens = 1

\* The positions in steps of the steps of section i.
RunOf(i) == {k \in 1..Len(steps) : steps[k].sectionIndex = i}

\* C10: at every point of the forEach loop, and so at its end, for every
\* section list: the sectionIndex sequence of steps is non-decreasing, and
\* each section visited contributes a contiguous run of exactly 2 steps if it
\* is a gallery or has detail content, and of exactly 1 step otherwise.
C10_StepShape ==
    /\ \A k \in 1..(Len(steps) - 1) : steps[k].sectionIndex <= steps[k + 1].sectionIndex
    /\ \A i \in 0..(buildIndex - 1) :
          /\ \A a \in RunOf(i) : \A b \in RunOf(i) : \A k \in a..b : k \in RunOf(i)
          /\ Cardinality(RunOf(i)) =
                IF sections[i + 1].isPortfolio \/ Truthy(sections[i + 1].detail)
                THEN 2 ELSE 1
    /\ \A k \in 1..Len(steps) : steps[k].sectionIndex \in 0..(buildIndex - 1)

\* The loop has finished on a list with a gallery that also has detail content,
\* a section without detail and a section with detail content.
C10_Witness ==
    /\ buildIndex = Len(sections)
    /\ Len(sections) = 3
    /\ sections[1] = [detail |-> "content", isPortfolio |-> TRUE]
    /\ sections[2] = [detail |-> "empty", isPortfolio |-> FALSE]
    /\ sections[3] = [detail |-> "content", isPortfolio |-> FALSE]
    /\ Len(steps) = 5

\* A section has detail content: a detail that is neither absent nor ''.
HasDetailContent(s) == s.detail = "content"

\* The subStep sequence of the steps of section i, in order.
KindsOf(i) ==
    LET run == SelectSeq(steps, LAMBDA st : st.sectionIndex = i)
    IN  [k \in 1..Len(run) |-> run[k].subStep]

\* The number of sections among the first n that yield a second step.
TwoStepCount(n) ==
    Cardinality({i \in 1..n : sections[i].isPortfolio \/ HasDetailContent(sections[i])})

\* C11: at every point of the forEach loop, for every section list: the steps
\* of each section visited are one title step, followed by one gallery step
\* if the section is flagged as a gallery (whether or not it has detail
\* content), by one detail step if it has detail content and no gallery flag,
\* and by nothing otherwise; and len(steps) is the number of sections visited
\* plus the number of those with detail content or the gallery flag.
C11_StepKinds ==
    /\ \A i \in 0..(buildIndex - 1) :
          KindsOf(i) = IF sections[i + 1].isPortfolio THEN <<"title", "portfolio">>
                       ELSE IF HasDetailContent(sections[i + 1]) THEN <<"title", "detail">>
                       ELSE <<"title">>
    /\ Len(steps) = buildIndex + TwoStepCount(buildIndex)

\* The loop has finished on a list of a section whose detail is '', a gallery
\* with detail content and a section with detail content.
C11_Witness ==
    /\ buildIndex = Len(sections)
    /\ Len(sections) = 3
    /\ sections[1] = [detail |-> "empty", isPortfolio |-> FALSE]
    /\ sections[2] = [detail |-> "content", isPortfolio |-> TRUE]
    /\ sections[3] = [detail |-> "content", isPortfolio |-> FALSE]
    /\ [k \in 1..Len(steps) |-> steps[k].subStep]
          = <<"title", "title", "portfolio", "title", "detail">>

\* a/b <= c/d for fractions with positive denominators.
FracLeq(x, y) == x.num * y.den <= y.num * x.den

FracEq(x, y) == x.num * y.den = y.num * x.den

\* clamp(scrollTop / (documentHeight - viewportHeight), 0, 1), and 0 when
\* documentHeight - viewportHeight <= 0.
ClampedProgress(scrollTop, documentHeight, viewportHeight) ==
    LET denom == documentHeight - viewportHeight
    IN  IF denom <= 0 THEN Frac(0, 1)
        ELSE IF scrollTop < 0 THEN Frac(0, 1)
        ELSE IF scrollTop > denom THEN Frac(1, 1)
        ELSE Frac(scrollTop, denom)

\* C12: the published progress equals clamp(scrollTop / (documentHeight -
\* viewportHeight), 0, 1), and 0 when the denominator is not positive, for
\* every scrollTop, also below 0 or above documentHeight - viewportHeight; so
\* it lies in [0, 1]; and 3000, 1000, 1000 publish 1/2.
C12_ProgressClamp ==
    /\ FracEq(progress, ClampedProgress(scrollY, scrollHeight, innerHeight))
    /\ FracLeq(Frac(0, 1), progress) /\ FracLeq(progress, Frac(1, 1))
    /\ (scrollHeight = 3000 /\ innerHeight = 1000 /\ scrollY = 1000)
          => FracEq(progress, Frac(1, 2))

\* C13: a goToStep accepted while its target's anchor cannot be located still
\* moves currentStepRef to the target and starts no scroll command; and the
\* controller stays usable: a goToStep for a different step, called while the
\* anchors are present and no scroll command is in flight, is accepted and
\* starts its scroll command.
C13_MissingAnchorRecovery ==
    /\ [][(last'.goTo = "accepted" /\ ~domReady)
             => (currentStepRef' # currentStepRef /\ scrollTweens' = scrollTweens)]_vars
    /\ [][(last'.goTo \in {"locked", "accepted"} /\ domReady /\ scrollTweens = 0)
             => (last'.goTo = "accepted" /\ scrollTweens' = 1)]_vars

\* C14: the lock, once set, is cleared only by the completion of the scroll
\* command of the goToStep that set it: every step that clears isAnimating
\* is that tween's onComplete (the one scroll command in flight ends), and no
\* input handler, timer, gallery callback or text-animation step clears it.
C14_SoleLockRelease ==
    [][(isAnimating /\ ~isAnimating')
          => (/\ scrollTweens = 1
              /\ scrollTweens' = 0
              /\ last' = Did("callback", "none", "none", "none")
              /\ currentStepRef' = currentStepRef)]_vars

\* The scroll command of a transition to step 1 has completed and released
\* the lock, with a gallery slide started meanwhile still in flight.
C14_Witness ==
    /\ ~isAnimating
    /\ currentStepRef = 1
    /\ scrollY = OffsetTop(1)
    /\ last.op = "callback"
    /\ isMoving

\* C15: teardown cancels the pending debounce timer, the delayed initial
\* entrance and the scroll-position tween in flight, and after teardown no
\* controller callback fires: no scroll tween completes, the lock is not
\* released, no progress is published, no text animation or timer runs.
C15_TeardownCancellation ==
    /\ [][(mounted /\ ~mounted')
             => (~wheelTimer' /\ ~heroTimer' /\ scrollTweens' = 0)]_vars
    /\ [][~mounted
             => UNCHANGED <<isAnimating, scrollTweens, scrollY, progress,
                            activeTextSections, wheelAccum, wheelTimer, heroTimer>>]_vars

\* The title step of the section that follows the gallery section.
AfterGalleryTitle == [sectionIndex |-> GallerySection + 1, subStep |-> "title"]

KeyRequests(target) ==
    /\ currentStepRef' = Max(0, Min(target, Len(steps) - 1))
    /\ isAnimating' = (currentStepRef' # currentStepRef)
    /\ scrollTweens' = (IF currentStepRef' # currentStepRef THEN 1 ELSE 0)
    /\ UNCHANGED <<aggVars, subVars>>

\* C17: with the controller idle, ArrowDown, PageDown and Space request
\* currentStepRef + 1, ArrowUp and PageUp currentStepRef - 1, Home step 0 and
\* End the last step, each in the step of the key press itself; any other key
\* leaves the navigation state (the controller's and the gallery's) unchanged.
C17_KeyboardMapping ==
    [][\A key \in Keys :
          (KeyDown(key) /\ ~isAnimating) =>
              IF key \in {"ArrowDown", "PageDown", "Space"}
              THEN KeyRequests(currentStepRef + 1)
              ELSE IF key \in {"ArrowUp", "PageUp"}
              THEN KeyRequests(currentStepRef - 1)
              ELSE IF key = "Home" THEN KeyRequests(0)
              ELSE IF key = "End" THEN KeyRequests(Len(steps) - 1)
              ELSE UNCHANGED <<navVars, subVars>>]_vars

\* C18 as claimed: portfolioVisible holds exactly when the current step is
\* the gallery step, and visibleDetails holds a section exactly when the
\* current step is that section's detail step.
C18_VisibilityAgrees ==
    /\ portfolioVisible <=> OnGallery
    /\ \A i \in SectionIndices :
          i \in visibleDetails
              <=> StepAt(currentStepRef) = [sectionIndex |-> i, subStep |-> "detail"]

\* C18 amended: on the gallery step portfolioVisible holds and on the gallery
\* section's title step it does not; on a section's detail step visibleDetails
\* holds that section and on its title step it does not; on every other step
\* the flags of a section are as the last visit to that section left them.
C18_VisibilityAgreesAmended ==
    /\ [](OnGallery => portfolioVisible)
    /\ [](\A i \in SectionIndices :
            /\ StepAt(currentStepRef) = [sectionIndex |-> i, subStep |-> "detail"]
                  => i \in visibleDetails
            /\ StepAt(currentStepRef) = [sectionIndex |-> i, subStep |-> "title"]
                  => /\ i \notin visibleDetails
                     /\ sections[i + 1].isPortfolio => ~portfolioVisible)
    /\ [][\A i \in SectionIndices :
             StepAt(currentStepRef').sectionIndex # i
                => /\ (i \in visibleDetails') <=> (i \in visibleDetails)
                   /\ sections[i + 1].isPortfolio
                         => (portfolioVisible' <=> portfolioVisible)]_vars

\* The controller has advanced past a detail step and past the gallery: it is
\* on the title step of the section after the gallery, at rest, with the
\* detail card of section 1 and the gallery overlay still flagged visible.
C18_Witness ==
    /\ StepAt(currentStepRef) = AfterGalleryTitle
    /\ ~isAnimating
    /\ portfolioVisible
    /\ visibleDetails = {1}

\* A goToStep for a step other than the current one would be accepted.
SomeGoToAccepted ==
    \E target \in 0..(Len(steps) - 1) :
        target # currentStepRef /\ GoToOutcome(target) = "accepted"

\* C19: with every anchor present and every started scroll command
\* completing, the lock set by an accepted goToStep is eventually clear again,
\* and from every reachable state the controller comes, again and again, to a
\* state in which a goToStep for a different step is accepted: no state is
\* terminal.
C19_NoPermanentLock ==
    /\ isAnimating ~> ~isAnimating
    /\ [](~isAnimating => SomeGoToAccepted)
    /\ []<>SomeGoToAccepted

\* The controller has reached the last step and its lock has cleared.
C19_Witness ==
    /\ currentStepRef = Len(steps) - 1
    /\ ~isAnimating
    /\ scrollTweens = 0
    /\ scrollY = OffsetTop(Len(sections) - 1)

\* C20: an accepted transition that enters a detail step adds the step's
\* section to visibleDetails; one that enters the gallery step sets
\* portfolioVisible; one from a detail step to the title step of the same
\* section removes the section from visibleDetails; one from the gallery
\* step to its own title step clears portfolioVisible.
C20_VisibilityDeltas ==
    [][last'.goTo = "accepted" =>
          LET from == StepAt(currentStepRef)
              to == StepAt(currentStepRef')
              back == to.subStep = "title" /\ to.sectionIndex = from.sectionIndex
          IN  /\ to.subStep = "detail"
                    => visibleDetails' = visibleDetails \cup {to.sectionIndex}
              /\ to.subStep = "portfolio" => portfolioVisible'
              /\ (from.subStep = "detail" /\ back)
                    => /\ from.sectionIndex \in visibleDetails
                       /\ visibleDetails' = visibleDetails \ {from.sectionIndex}
              /\ (from.subStep = "portfolio" /\ back)
                    => (portfolioVisible /\ ~portfolioVisible')]_vars

\* A retreat from the detail step of section 1 to its title step was accepted
\* and has removed the section from visibleDetails.
C20_Witness ==
    /\ last.intent = "retreat"
    /\ last.goTo = "accepted"
    /\ StepAt(currentStepRef) = [sectionIndex |-> 1, subStep |-> "title"]
    /\ scrollY = OffsetTop(1)
    /\ visibleDetails = {}

\* animateTextOut ran its tweens for section i in this step: it is called
\* only for a section in the text-active set and, having run, removes it.
TextOutFired(i) == i \in activeTextSections /\ i \notin activeTextSections'

\* animateTextIn ran its tweens for section i in this step: it is called only
\* for a section not in the text-active set and, having run, adds it.
TextInFired(i) == i \notin activeTextSections /\ i \in activeTextSections'

\* C21 as claimed: an accepted transition between two steps of the same
\* section fires neither the exit nor the entrance animation of that section.
C21_SameSectionQuiet ==
    [][(/\ last'.goTo = "accepted"
        /\ StepAt(currentStepRef).sectionIndex = StepAt(currentStepRef').sectionIndex)
          => (/\ ~TextOutFired(StepAt(currentStepRef).sectionIndex)
              /\ ~TextInFired(StepAt(currentStepRef).sectionIndex))]_vars

\* C21 amended: an accepted transition between two steps of the same section
\* never fires an exit animation; from the title step to the detail or
\* gallery step it fires no text animation at all; back to the title step it
\* fires the section's entrance animation exactly when the section's text is
\* not animated in (and the section's characters are found), and nothing
\* otherwise.
C21_SameSectionQuietAmended ==
    [][(/\ last'.goTo = "accepted"
        /\ StepAt(currentStepRef).sectionIndex = StepAt(currentStepRef').sectionIndex)
          => LET s == StepAt(currentStepRef).sectionIndex
             IN  /\ \A i \in SectionIndices : ~TextOutFired(i)
                 /\ \A i \in SectionIndices \ {s} : ~TextInFired(i)
                 /\ StepAt(currentStepRef').subStep # "title"
                       => activeTextSections' = activeTextSections
                 /\ StepAt(currentStepRef').subStep = "title"
                       => /\ TextInFired(s)
                                <=> (s \notin activeTextSections /\ ElsPresent(s))
                          /\ ElsPresent(s) => s \in activeTextSections'
                          /\ s \in activeTextSections
                                => activeTextSections' = activeTextSections]_vars

\* An advance from the title step of section 1 to its detail step was
\* accepted with the section's text animated in, and the text is still in.
C21_Witness ==
    /\ last = Did("wheel", "advance", "none", "accepted")
    /\ StepAt(currentStepRef) = [sectionIndex |-> 1, subStep |-> "detail"]
    /\ activeTextSections = {1}
    /\ isAnimating

\* C22 as claimed: an accepted transition between steps of different
\* sections fires the departing section's exit animation and, when the
\* arriving step is a title step, the arriving section's entrance animation.
C22_CrossSectionAnimates ==
    [][(/\ last'.goTo = "accepted"
        /\ StepAt(currentStepRef).sectionIndex # StepAt(currentStepRef').sectionIndex)
          => (/\ TextOutFired(StepAt(currentStepRef).sectionIndex)
              /\ StepAt(currentStepRef').subStep = "title"
                    => TextInFired(StepAt(currentStepRef').sectionIndex))]_vars

\* C22 amended: an accepted transition between steps of different sections
\* fires the departing section's exit animation exactly when that section's
\* text is animated in, and the arriving section's entrance animation exactly
\* when the arriving step is a title step and that section's text is not
\* animated in (the sections' characters being found); it fires no text
\* animation of any other section.
C22_CrossSectionAnimatesAmended ==
    [][(/\ last'.goTo = "accepted"
        /\ StepAt(currentStepRef).sectionIndex # StepAt(currentStepRef').sectionIndex)
          => LET from == StepAt(currentStepRef)
                 to == StepAt(currentStepRef')
             IN  /\ TextOutFired(from.sectionIndex)
                       <=> (from.sectionIndex \in activeTextSections
                            /\ ElsPresent(from.sectionIndex))
                 /\ TextInFired(to.sectionIndex)
                       <=> (/\ to.subStep = "title"
                            /\ to.sectionIndex \notin activeTextSections
                            /\ ElsPresent(to.sectionIndex))
                 /\ \A i \in SectionIndices \ {from.sectionIndex, to.sectionIndex} :
                       ~TextOutFired(i) /\ ~TextInFired(i)
                 /\ ~TextInFired(from.sectionIndex)
                 /\ ~TextOutFired(to.sectionIndex)]_vars

\* An advance from the detail step of section 1, its text animated in, to
\* the title step of section 2 was accepted: the text of section 1 is out and
\* that of section 2 is in.
C22_Witness ==
    /\ last = Did("wheel", "advance", "none", "accepted")
    /\ StepAt(currentStepRef) = [sectionIndex |-> 2, subStep |-> "title"]
    /\ visibleDetails = {1}
    /\ activeTextSections = {2}
    /\ ~heroTimer
    /\ isAnimating

\* C23: a touchend received with the lock clear, with delta the touchstart Y
\* minus the touchend Y: if |delta| > SWIPE_MIN it derives exactly one
\* intent, advance for delta > 0 and retreat for delta < 0, and hands
\* goToStep the step next to the current one in that direction; if
\* |delta| <= SWIPE_MIN (exactly SWIPE_MIN included) it changes nothing; in
\* both cases it leaves the touchstart Y and the wheel accumulator as they
\* were, so that swipes do not add up.
C23_TouchSwipe ==
    [][\A y \in TouchEndYs :
          (~isAnimating /\ OnTouchEnd(y)) =>
              LET delta == touchStartY - y
                  direction == IF delta > 0 THEN 1 ELSE -1
              IN  IF Abs(delta) > SWIPE_MIN
                  THEN /\ delta # 0
                       /\ last' = Did("touchEnd",
                                      IF delta > 0 THEN "advance" ELSE "retreat",
                                      "none", last'.goTo)
                       /\ last'.goTo \in {"same", "accepted"}
                       /\ currentStepRef' = Clamp(currentStepRef + direction)
                       /\ UNCHANGED <<aggVars, subVars>>
                  ELSE UNCHANGED vars]_vars

\* A swipe down of 51 px on step 1 was taken as a retreat and accepted.
C23_Witness ==
    /\ last = Did("touchEnd", "retreat", "none", "accepted")
    /\ touchStartY = 100
    /\ currentStepRef = 0
    /\ isAnimating
    /\ wheelAccum = 25

\* C24: right after a goToStep call is accepted, whichever handler made it
\* (wheel, touch, keyboard, navigation dot, gallery callback), the wheel
\* accumulator is zero; and it is zero right after the 200 ms timer fires.
C24_AccumulatorCleared ==
    /\ [][last'.goTo = "accepted" => wheelAccum' = 0]_vars
    /\ [][(wheelTimer /\ ~wheelTimer' /\ last'.op = "callback") => wheelAccum' = 0]_vars

\* C25: at most one gallery slide is in flight at any time, and one is in
\* flight exactly while the gallery's lock isMoving is held; while a slide is
\* in flight no step changes the current card, and a next()/prev()/dot
\* request is answered true without moving; and slideTo never answers false
\* with isMoving held, before the call or after it.
C25_SubNavLock ==
    /\ [](slideTweens \in {0, 1} /\ (isMoving <=> slideTweens = 1))
    /\ [][isMoving => currentCard' = currentCard]_vars
    /\ [][(isMoving /\ last'.sub # "none")
             => (last'.sub = "busy" /\ UNCHANGED subVars)]_vars
    /\ [][last'.sub = "false" => (~isMoving /\ ~isMoving')]_vars

\* A gallery dot for another card was clicked while a slide to card 1 was in
\* flight, and the gallery stayed on card 1.
C25_Witness ==
    /\ last = Did("phDot", "none", "busy", "none")
    /\ isMoving
    /\ slideTweens = 1
    /\ currentCard = 1
    /\ OnGallery

\* C26: the progress last published is always the progress of the window's
\* current scroll position: the sample of the mount, that of every native
\* scroll event and that of every tick and of the completion of a scroll
\* tween are published, with the transition lock held or clear.
C26_ProgressNotGated ==
    /\ [](progress = ProgressOf(scrollY, scrollHeight, innerHeight))
    /\ [][(last'.op \in {"scroll", "update"} /\ scrollY' # scrollY)
             => (progress' # progress /\ isAnimating' = isAnimating)]_vars

\* A native scroll event arrived while a transition to the last step was in
\* flight, and its sample was published.
C26_Witness ==
    /\ isAnimating
    /\ scrollTweens = 1
    /\ currentStepRef = Len(steps) - 1
    /\ last = Did("scroll", "none", "none", "none")
    /\ scrollY = 500
    /\ progress = Frac(500, 3000)

\* C27: in every reachable state the text-active set holds no section other
\* than the section of the current step, also when a goToStep was accepted
\* before the delayed hero entrance has run.
C27_TextActiveFollows ==
    activeTextSections \subseteq {StepAt(currentStepRef).sectionIndex}

\* C28: while the current step is not the gallery step, no step changes the
\* gallery's current card or starts a slide, and no step taken by the
\* gallery's onComplete/onGoBack callbacks (the ArrowRight and ArrowLeft
\* keys) changes currentStepRef.
C28_SubNavInert ==
    /\ [][~OnGallery => (currentCard' = currentCard /\ slideTweens' <= slideTweens)]_vars
    /\ [][(~OnGallery /\ last'.op = "phKey") => currentStepRef' = currentStepRef]_vars

\* C29: a wheel event received while the transition lock is held, on the
\* gallery step as on any other, leaves the wheel accumulator and the 200 ms
\* timer as they were (a pending timer stays pending, none is set), reaches
\* neither the gallery nor goToStep, and does not scroll the page: its
\* default is prevented.
C29_WheelUnderLock ==
    [][\A d \in Deltas :
          (isAnimating /\ OnWheel(d)) =>
              /\ wheelAccum' = wheelAccum
              /\ wheelTimer' = wheelTimer
              /\ last' = Dropped
              /\ scrollY' = scrollY
              /\ UNCHANGED <<navVars, subVars>>]_vars

\* On the gallery step, during the transition that entered it, an input was
\* dropped with a sub-threshold sum in the accumulator and its timer pending.
C29_Witness ==
    /\ last = Dropped
    /\ isAnimating
    /\ OnGallery
    /\ wheelAccum = 25
    /\ wheelTimer

\* C30: whenever an accepted advance from the gallery section's title step
\* enters the gallery step, the gallery is on its first card; and on the
\* gallery step, with no lock held, an advance intent is absorbed by the
\* gallery, which moves on by one card, unless the gallery is on its last
\* card, when it bubbles: so NumProjects - 1 advance intents are absorbed
\* after every such entry, whatever the earlier visits to the gallery.
C30_GalleryStartsFirst ==
    /\ [][(/\ last'.goTo = "accepted"
           /\ last'.intent = "advance"
           /\ StepAt(currentStepRef).subStep = "title"
           /\ StepAt(currentStepRef').subStep = "portfolio")
             => (currentCard = 0 /\ currentCard' = 0)]_vars
    /\ [][(/\ OnGallery /\ ~isAnimating /\ ~isMoving
           /\ last'.op = "wheel" /\ last'.intent = "advance")
             => IF currentCard < NumProjects - 1
                THEN last'.sub = "true" /\ currentCard' = currentCard + 1
                ELSE last'.sub = "false" /\ last'.goTo = "accepted"]_vars

====
